---- MODULE Spec2Model ----
(***************************************************************************)
(* Connection layer of the kernel's comms: the BFF transport               *)
(* (comms/v4/BFFConnection.ts), the legacy broker transport                *)
(* (comms/v1/CliBrokerConnection.ts) and the realm / comms-context sagas.  *)
(*                                                                         *)
(* Everything runs on one JavaScript event loop.  A step of the model is   *)
(* one synchronous run of code: a call made by the owner of a transport,   *)
(* the continuation of an `await` (a microtask), or the handler of one     *)
(* socket or timer task.  Microtasks run before the next socket or timer   *)
(* task; the caller's own synchronous code may still run before them.      *)
(***************************************************************************)
EXTENDS Integers, Sequences, FiniteSets, TLC

VARIABLES
    bff,            \* BFFConnection fields: [ws, heartBeatInterval]
    bffSockets,     \* the WebSocket objects the BFFConnection has created
    timers,         \* setInterval timers that are still active
    timersCreated,  \* number of setInterval calls so far (next timer id - 1)
    microtasks,     \* connect() continuations queued behind `await connectWS()`
    disconnects,    \* onDisconnectObservable notifications so far
    broker,         \* CliBrokerConnection fields: [ws, alias, connected]
    brokerSockets,  \* the WebSocket objects the CliBrokerConnection has created
    awaiting,       \* connect() calls suspended at `await this.connected`
    realm,          \* the realm in the store (getRealm)
    changeRealmTask,\* the changeRealm saga takeLatest keeps running, if any
    auth,           \* the userAuthentified saga: where it stands and its
                    \* local variable currentRealm
    world,          \* the protocol state of the store: [context, prevContext]
    handlers,       \* handleNewCommsContext tasks suspended in disconnectContext:
                    \* the contexts whose disconnect() they await
    last,           \* the step just taken: operation, inputs, outcome
    out,            \* frames handed to a socket in OPEN state, or actions put
                    \* to the store, during the last step
    notes           \* observer notifications emitted during the last step

bffVars == <<bff, bffSockets, timers, timersCreated, microtasks, disconnects>>
brokerVars == <<broker, brokerSockets, awaiting>>
sagaVars == <<realm, changeRealmTask, auth>>
contextVars == <<world, handlers>>

vars == <<bffVars, brokerVars, sagaVars, contextVars, last, out, notes>>

----------------------------------------------------------------------------
(* Bounds of the exploration *)

MaxSockets == 3
MaxTimers == 3
MaxAwaiting == 2
MaxHandlers == 2

(* `null` of the source; socket and timer ids start at 1 *)
NULL == 0

----------------------------------------------------------------------------
(* Input domains *)

NoPosition == <<>>
Positions == {<<1, 2, 3>>}
Identities == {"idA", "idB"}
Payloads == {"abc", "xyz"}
PeerIds == {"peer1"}
ConnStrs == {"island-1"}
TopicLists == {<<>>, <<"t1">>, <<"t1", "t2">>}
RawData == {"raw"}
Aliases == {7, 8}

(* WebSocket.readyState *)
ReadyStates == {"CONNECTING", "OPEN", "CLOSING", "CLOSED"}

----------------------------------------------------------------------------
(* Outcome of a call: a returned or thrown synchronous call, or the promise *)
(* an async function returns.                                               *)

Returned == [state |-> "returned", error |-> "none"]
Threw(e) == [state |-> "threw", error |-> e]
Resolved == [state |-> "resolved", error |-> "none"]
Rejected(e) == [state |-> "rejected", error |-> e]

TransportClosed == "This transport is closed"
InvalidState == "InvalidStateError"

(* An async function body that ended with outcome r: a throw rejects its promise *)
Async(r) ==
    IF r.state \in {"threw", "rejected"} THEN Rejected(r.error) ELSE Resolved

(* A promise is settled once: resolve/reject on a settled promise does nothing *)
Settle(promise, outcome) ==
    IF promise = "pending" THEN outcome ELSE promise

----------------------------------------------------------------------------
(* Frames *)

Frame(type, bodyOk, payload, peerId, body, connStr) ==
    [type |-> type, bodyOk |-> bodyOk, payload |-> payload, peerId |-> peerId,
     body |-> body, connStr |-> connStr]

NoFrame == Frame("none", FALSE, "", "", "", "")

(* What the server may put on a BFF socket.  BAD_HEADER is a frame whose     *)
(* MessageHeader does not deserialize; bodyOk = FALSE is a frame whose header *)
(* deserializes and whose full message does not.                             *)
BFFInFrames ==
    {Frame("BAD_HEADER", FALSE, "", "", "", ""),
     Frame("UNKNOWN_MESSAGE_TYPE", TRUE, "", "", "", ""),
     Frame("OPEN", FALSE, "", "", "", ""),
     Frame("VALIDATION_OK", TRUE, "", "", "", ""),
     Frame("VALIDATION_FAILURE", TRUE, "", "", "", ""),
     Frame("TOPIC", FALSE, "", "", "", ""),
     Frame("ISLAND_CHANGES", FALSE, "", "", "", ""),
     Frame("HEARTBEAT", TRUE, "", "", "", "")}
    \cup {Frame("OPEN", TRUE, p, "", "", "") : p \in Payloads}
    \cup {Frame("TOPIC", TRUE, "", q, d, "") : q \in PeerIds, d \in RawData}
    \cup {Frame("ISLAND_CHANGES", TRUE, "", "", "", c) : c \in ConnStrs}

(* Authenticator.signPayload(identity, payload): the chain names the signer *)
(* and the payload it signed                                                *)
signPayload(identity, payload) ==
    [signer |-> identity, signed |-> payload]

(* JSON.stringify of a signed payload *)
stringify(chain) ==
    <<"json", chain.signer, chain.signed>>

(* variant: the whole frame is signed instead of the challenge payload *)
ValidationMessage_signsFrame(identity, payload) ==
    [type |-> "VALIDATION",
     encodedPayload |-> stringify(signPayload(identity, <<"OPEN", payload>>))]

ValidationMessage(identity, payload) ==
    [type |-> "VALIDATION", encodedPayload |-> stringify(signPayload(identity, payload))]

HeartBeatMessage(position) ==
    [type |-> "HEARTBEAT",
     data |-> [category |-> "WORLD_POSITION", positionX |-> position[1],
               positionY |-> position[2], positionZ |-> position[3]]]

TopicMessage(topic, body) ==
    [type |-> "TOPIC", topic |-> topic, body |-> body]

(* rawTopics.join(' ') *)
RECURSIVE join(_)
join(rawTopics) ==
    IF Len(rawTopics) = 0 THEN <<>>
    ELSE IF Len(rawTopics) = 1 THEN <<rawTopics[1]>>
    ELSE <<rawTopics[1], " ">> \o join(Tail(rawTopics))

SubscriptionMessage(rawTopics) ==
    [type |-> "SUBSCRIPTION", topics |-> join(rawTopics)]

----------------------------------------------------------------------------
(* WebSocket objects *)

(* new WebSocket(url, 'comms') with the three handlers of connectWS attached; *)
(* `promise` is the promise connectWS returns for this socket, `notified`     *)
(* counts the 'disconnected' notifications emitted while it was this.ws,      *)
(* gotFailure records that it delivered VALIDATION_FAILURE and validated that *)
(* it delivered VALIDATION_OK and is still OPEN.                              *)
BFFNewSocket ==
    [readyState |-> "CONNECTING", onmessage |-> TRUE, onerror |-> TRUE,
     onclose |-> TRUE, promise |-> Settle("pending", "resolved"),
     notified |-> 0, gotFailure |-> FALSE, validated |-> FALSE]

(* WebSocket.close(): starts the closing handshake unless already closing *)
WsClose(readyState) ==
    IF readyState \in {"CLOSING", "CLOSED"} THEN readyState ELSE "CLOSING"

(* The state the handlers of a BFFConnection run on *)
BFFWorld ==
    [ws |-> bff.ws, heartBeatInterval |-> bff.heartBeatInterval,
     socks |-> bffSockets, timers |-> timers, disconnects |-> disconnects,
     out |-> <<>>, notes |-> <<>>, ret |-> Returned, unhandled |-> <<>>]

(* variant: the data is kept back and transmitted with a later message *)
WsSend_batched(w, data) ==
    LET rs == w.socks[w.ws].readyState
    IN  IF rs = "CONNECTING"
        THEN [w EXCEPT !.ret = Threw(InvalidState)]
        ELSE [w EXCEPT !.ret = Returned]

(* WebSocket.send(data) on socket w.ws: throws while CONNECTING, transmits *)
(* while OPEN, discards the data while CLOSING or CLOSED                   *)
WsSend(w, data) ==
    LET rs == w.socks[w.ws].readyState
    IN  CASE rs = "CONNECTING" -> [w EXCEPT !.ret = Threw(InvalidState)]
          [] rs = "OPEN" ->
                [w EXCEPT !.out = Append(@, [sock |-> w.ws, msg |-> data]),
                          !.ret = Returned]
          [] OTHER -> [w EXCEPT !.ret = Returned]

(* A call whose promise nobody keeps: a rejection is an unhandled rejection *)
Floating(w) ==
    IF w.ret.state = "rejected"
    THEN [w EXCEPT !.unhandled = Append(@, w.ret.error)]
    ELSE w

----------------------------------------------------------------------------
(* BFFConnection: the methods, as functions of the world they run on *)

(* async send(data) *)
BFFConnection_send(w, data) ==
    IF w.ws = NULL
    THEN [w EXCEPT !.ret = Rejected(TransportClosed)]
    ELSE LET r == WsSend(w, data)
         IN  [r EXCEPT !.ret = Async(r.ret)]

(* variant: without a position the heartbeat is sent with an empty payload *)
BFFConnection_sendHeartBeat_sendsEmpty(w, position) ==
    IF position # NoPosition
    THEN BFFConnection_send(w, HeartBeatMessage(position))
    ELSE BFFConnection_send(w, [type |-> "HEARTBEAT", data |-> <<>>])

(* async sendHeartBeat(), with position = this.config.selfPosition() *)
BFFConnection_sendHeartBeat(w, position) ==
    IF position # NoPosition
    THEN BFFConnection_send(w, HeartBeatMessage(position))
    ELSE [w EXCEPT !.ret = Resolved]

(* sendTopicMessage(topic, body): synchronous, the promise of send is dropped *)
BFFConnection_sendTopicMessage(w, topic, body) ==
    LET r == Floating(BFFConnection_send(w, TopicMessage(topic, body)))
    IN  [r EXCEPT !.ret = Returned]

(* async setTopics(rawTopics): the promise of send is not awaited *)
BFFConnection_setTopics(w, rawTopics) ==
    LET r == Floating(BFFConnection_send(w, SubscriptionMessage(rawTopics)))
    IN  [r EXCEPT !.ret = Resolved]

DisconnectedNote == [stream |-> "onDisconnectObservable", value |-> "void"]

(* variant: the socket reference is kept after the socket is closed *)
BFFConnection_disconnect_keepsWs(w) ==
    LET w1 == IF w.heartBeatInterval # NULL
              THEN [w EXCEPT !.timers = @ \ {w.heartBeatInterval}]
              ELSE w
        s == w.ws
    IN  IF s # NULL
        THEN [w1 EXCEPT !.socks[s].onmessage = FALSE,
                        !.socks[s].onerror = FALSE,
                        !.socks[s].onclose = FALSE,
                        !.socks[s].readyState = WsClose(@),
                        !.socks[s].notified = IF @ < 2 THEN @ + 1 ELSE @,
                        !.disconnects = IF @ <= MaxSockets THEN @ + 1 ELSE @,
                        !.notes = Append(@, DisconnectedNote),
                        !.ret = Resolved]
        ELSE [w1 EXCEPT !.ret = Resolved]

(* variant: the heartbeat timer is not cleared *)
BFFConnection_disconnect_keepsTimer(w) ==
    LET s == w.ws
    IN  IF s # NULL
        THEN [w EXCEPT !.socks[s].onmessage = FALSE,
                       !.socks[s].onerror = FALSE,
                       !.socks[s].onclose = FALSE,
                       !.socks[s].readyState = WsClose(@),
                       !.socks[s].notified = IF @ < 2 THEN @ + 1 ELSE @,
                       !.disconnects = IF @ <= MaxSockets THEN @ + 1 ELSE @,
                       !.ws = NULL,
                       !.notes = Append(@, DisconnectedNote),
                       !.ret = Resolved]
        ELSE [w EXCEPT !.ret = Resolved]

(* variant: observers are notified whether or not a socket was open *)
BFFConnection_disconnect_alwaysNotifies(w) ==
    LET w1 == IF w.heartBeatInterval # NULL
              THEN [w EXCEPT !.timers = @ \ {w.heartBeatInterval}]
              ELSE w
        s == w.ws
        w2 == IF s # NULL
              THEN [w1 EXCEPT !.socks[s].onmessage = FALSE,
                              !.socks[s].onerror = FALSE,
                              !.socks[s].onclose = FALSE,
                              !.socks[s].readyState = WsClose(@),
                              !.socks[s].notified = IF @ < 2 THEN @ + 1 ELSE @,
                              !.ws = NULL]
              ELSE w1
    IN  [w2 EXCEPT !.disconnects = IF @ <= MaxSockets THEN @ + 1 ELSE @,
                   !.notes = Append(@, DisconnectedNote),
                   !.ret = Resolved]

(* variant: only the reference is dropped, the socket stays as it is *)
BFFConnection_disconnect_dropsReferenceOnly(w) ==
    LET w1 == IF w.heartBeatInterval # NULL
              THEN [w EXCEPT !.timers = @ \ {w.heartBeatInterval}]
              ELSE w
        s == w.ws
    IN  IF s # NULL
        THEN [w1 EXCEPT !.socks[s].notified = IF @ < 2 THEN @ + 1 ELSE @,
                        !.disconnects = IF @ <= MaxSockets THEN @ + 1 ELSE @,
                        !.ws = NULL,
                        !.notes = Append(@, DisconnectedNote),
                        !.ret = Resolved]
        ELSE [w1 EXCEPT !.ret = Resolved]

(* async disconnect() *)
BFFConnection_disconnect(w) ==
    LET w1 == IF w.heartBeatInterval # NULL
              THEN [w EXCEPT !.timers = @ \ {w.heartBeatInterval}]
              ELSE w
        s == w.ws
    IN  IF s # NULL
        THEN [w1 EXCEPT !.socks[s].onmessage = FALSE,
                        !.socks[s].onerror = FALSE,
                        !.socks[s].onclose = FALSE,
                        !.socks[s].readyState = WsClose(@),
                        !.socks[s].notified = IF @ < 2 THEN @ + 1 ELSE @,
                        !.disconnects = IF @ <= MaxSockets THEN @ + 1 ELSE @,
                        !.ws = NULL,
                        !.notes = Append(@, DisconnectedNote),
                        !.ret = Resolved]
        ELSE [w1 EXCEPT !.ret = Resolved]

(* variant: a frame that fails to decode tears the connection down *)
BFFConnection_onDecodeError_disconnects(w) ==
    LET r == Floating(BFFConnection_disconnect(w))
    IN  [r EXCEPT !.ret = Resolved]

(* the catch blocks of onWsMessage: log the error, leave the handler *)
BFFConnection_onDecodeError(w) ==
    [w EXCEPT !.ret = Resolved]

(* variant: a topic message is announced on the island stream *)
TopicNote_onIslandStream(frame) ==
    [stream |-> "onIslandChangeObservable",
     value |-> [peerId |-> frame.peerId, data |-> frame.body]]

(* onTopicMessageObservable.notifyObservers({peerId, data: body}) *)
TopicNote(frame) ==
    [stream |-> "onTopicMessageObservable",
     value |-> [peerId |-> frame.peerId, data |-> frame.body]]

(* onIslandChangeObservable.notifyObservers(islandConnStr) *)
IslandNote(frame) ==
    [stream |-> "onIslandChangeObservable", value |-> frame.connStr]

(* async onWsMessage(event) for a frame delivered by socket s; identity is *)
(* what this.config.getIdentity() returns during the call                  *)
BFFConnection_onWsMessage(w, s, frame, identity) ==
    IF frame.type = "BAD_HEADER"
    THEN BFFConnection_onDecodeError(w)
    ELSE CASE frame.type = "UNKNOWN_MESSAGE_TYPE" -> [w EXCEPT !.ret = Resolved]
           [] frame.type = "OPEN" ->
                IF ~frame.bodyOk
                THEN BFFConnection_onDecodeError(w)
                ELSE LET r == Floating(BFFConnection_send(
                                  w, ValidationMessage(identity, frame.payload)))
                     IN  [r EXCEPT !.ret = Resolved]
           [] frame.type = "VALIDATION_OK" ->
                [w EXCEPT !.socks[s].validated = TRUE, !.ret = Resolved]
           [] frame.type = "VALIDATION_FAILURE" ->
                LET w1 == [w EXCEPT !.socks[s].gotFailure = TRUE]
                    r == Floating(BFFConnection_disconnect(w1))
                IN  [r EXCEPT !.ret = Resolved]
           [] frame.type = "TOPIC" ->
                IF ~frame.bodyOk
                THEN BFFConnection_onDecodeError(w)
                ELSE [w EXCEPT !.notes = Append(@, TopicNote(frame)),
                               !.ret = Resolved]
           [] frame.type = "ISLAND_CHANGES" ->
                IF ~frame.bodyOk
                THEN BFFConnection_onDecodeError(w)
                ELSE [w EXCEPT !.notes = Append(@, IslandNote(frame)),
                               !.ret = Resolved]
           [] OTHER -> [w EXCEPT !.ret = Resolved]

(* private connectWS(): the promise it returns is in ret *)
BFFConnection_connectWS(w) ==
    IF w.ws # NULL /\ w.socks[w.ws].readyState = "OPEN"
    THEN [w EXCEPT !.ret = Resolved]
    ELSE LET w1 == IF w.ws # NULL
                   THEN [w EXCEPT !.socks[w.ws].readyState = WsClose(@),
                                  !.ws = NULL]
                   ELSE w
             s == Len(w1.socks) + 1
         IN  [w1 EXCEPT !.socks = Append(@, BFFNewSocket),
                        !.ws = s,
                        !.ret = Resolved]

(* ws.onerror of connectWS: disconnect(), then reject the promise of the *)
(* connectWS call that created socket s                                  *)
BFFConnection_onerror(w, s) ==
    LET r == BFFConnection_disconnect(w)
    IN  [r EXCEPT !.socks[s].promise = Settle(@, "rejected")]

(* ws.onclose of connectWS *)
BFFConnection_onclose(w) ==
    BFFConnection_disconnect(w)

(* connect() after `await this.connectWS()`: setInterval(sendHeartBeat, 10000) *)
BFFConnection_connect_continue(w, timer) ==
    [w EXCEPT !.heartBeatInterval = timer,
              !.timers = @ \cup {timer},
              !.ret = Resolved]

----------------------------------------------------------------------------
(* The steps of a BFFConnection *)

Step(op, sock, frame, arg, w, wsBefore) ==
    [op |-> op, sock |-> sock, frame |-> frame, arg |-> arg, ret |-> w.ret,
     unhandled |-> w.unhandled, wsBefore |-> wsBefore]

BFFCommit(w) ==
    /\ bff' = [ws |-> w.ws, heartBeatInterval |-> w.heartBeatInterval]
    /\ bffSockets' = [s \in DOMAIN w.socks |->
                         IF w.socks[s].readyState = "OPEN"
                         THEN w.socks[s]
                         ELSE [w.socks[s] EXCEPT !.validated = FALSE]]
    /\ timers' = w.timers
    /\ disconnects' = w.disconnects
    /\ out' = w.out
    /\ notes' = w.notes
    /\ UNCHANGED <<brokerVars, sagaVars, contextVars>>

(* No continuation of an await is waiting: the event loop takes its next task *)
BFFIdle == microtasks = 0

(* connect() up to `await this.connectWS()` *)
BFFCallConnect ==
    /\ timersCreated + microtasks < MaxTimers
    /\ \/ bff.ws # NULL /\ bffSockets[bff.ws].readyState = "OPEN"
       \/ Len(bffSockets) < MaxSockets
    /\ LET w == BFFConnection_connectWS(BFFWorld)
       IN  /\ BFFCommit(w)
           /\ last' = Step("connect", w.ws, NoFrame, "", w, bff.ws)
    /\ microtasks' = microtasks + 1
    /\ UNCHANGED timersCreated

(* the rest of connect(), a microtask: start the heartbeat timer *)
BFFConnectContinue ==
    /\ microtasks > 0
    /\ LET w == BFFConnection_connect_continue(BFFWorld, timersCreated + 1)
       IN  /\ BFFCommit(w)
           /\ last' = Step("connected", w.ws, NoFrame, "", w, bff.ws)
    /\ timersCreated' = timersCreated + 1
    /\ microtasks' = microtasks - 1

BFFCallDisconnect ==
    /\ LET w == BFFConnection_disconnect(BFFWorld)
       IN  /\ BFFCommit(w)
           /\ last' = Step("disconnect", bff.ws, NoFrame, "", w, bff.ws)
    /\ UNCHANGED <<timersCreated, microtasks>>

BFFCallSend ==
    /\ \E data \in RawData :
          LET w == BFFConnection_send(BFFWorld, [type |-> "RAW", data |-> data])
          IN  /\ BFFCommit(w)
              /\ last' = Step("send", bff.ws, NoFrame, data, w, bff.ws)
    /\ UNCHANGED <<timersCreated, microtasks>>

BFFCallSendTopicMessage ==
    /\ \E body \in RawData :
          LET w == BFFConnection_sendTopicMessage(BFFWorld, "t1", body)
          IN  /\ BFFCommit(w)
              /\ last' = Step("sendTopicMessage", bff.ws, NoFrame, body, w, bff.ws)
    /\ UNCHANGED <<timersCreated, microtasks>>

BFFCallSetTopics ==
    /\ \E rawTopics \in TopicLists :
          LET w == BFFConnection_setTopics(BFFWorld, rawTopics)
          IN  /\ BFFCommit(w)
              /\ last' = Step("setTopics", bff.ws, NoFrame, rawTopics, w, bff.ws)
    /\ UNCHANGED <<timersCreated, microtasks>>

BFFCallSendHeartBeat ==
    /\ \E position \in Positions \cup {NoPosition} :
          LET w == BFFConnection_sendHeartBeat(BFFWorld, position)
          IN  /\ BFFCommit(w)
              /\ last' = Step("sendHeartBeat", bff.ws, NoFrame, position, w, bff.ws)
    /\ UNCHANGED <<timersCreated, microtasks>>

(* a tick of an active interval timer runs sendHeartBeat() and drops its promise *)
BFFHeartBeatTick ==
    /\ BFFIdle
    /\ \E t \in timers, position \in Positions \cup {NoPosition} :
          LET w == Floating(BFFConnection_sendHeartBeat(BFFWorld, position))
          IN  /\ BFFCommit(w)
              /\ last' = Step("tick", bff.ws, NoFrame, position, w, bff.ws)
    /\ UNCHANGED <<timersCreated, microtasks>>

(* the socket's connection is established (no onopen handler is attached) *)
BFFSocketOpens ==
    /\ BFFIdle
    /\ \E s \in 1..Len(bffSockets) :
          /\ bffSockets[s].readyState = "CONNECTING"
          /\ LET w == [BFFWorld EXCEPT !.socks[s].readyState = "OPEN"]
             IN  /\ BFFCommit(w)
                 /\ last' = Step("open", s, NoFrame, "", w, bff.ws)
    /\ UNCHANGED <<timersCreated, microtasks>>

(* the server starts the closing handshake *)
BFFServerStartsClose ==
    /\ BFFIdle
    /\ \E s \in 1..Len(bffSockets) :
          /\ bffSockets[s].readyState = "OPEN"
          /\ LET w == [BFFWorld EXCEPT !.socks[s].readyState = "CLOSING"]
             IN  /\ BFFCommit(w)
                 /\ last' = Step("closing", s, NoFrame, "", w, bff.ws)
    /\ UNCHANGED <<timersCreated, microtasks>>

(* a message event: delivered only by an OPEN socket to its onmessage handler *)
BFFSocketMessage ==
    /\ BFFIdle
    /\ \E s \in 1..Len(bffSockets), frame \in BFFInFrames, identity \in Identities :
          /\ bffSockets[s].readyState = "OPEN"
          /\ bffSockets[s].onmessage
          /\ LET w == BFFConnection_onWsMessage(BFFWorld, s, frame, identity)
             IN  /\ BFFCommit(w)
                 /\ last' = Step("message", s, frame, identity, w, bff.ws)
    /\ UNCHANGED <<timersCreated, microtasks>>

(* the connection fails: the socket is CLOSED, then its error event and its *)
(* close event are dispatched to the handlers attached at that moment       *)
BFFSocketFails ==
    /\ BFFIdle
    /\ \E s \in 1..Len(bffSockets) :
          /\ bffSockets[s].readyState # "CLOSED"
          /\ LET w0 == [BFFWorld EXCEPT !.socks[s].readyState = "CLOSED"]
                 w1 == IF w0.socks[s].onerror THEN BFFConnection_onerror(w0, s) ELSE w0
                 w2 == IF w1.socks[s].onclose THEN BFFConnection_onclose(w1) ELSE w1
             IN  /\ BFFCommit(w2)
                 /\ last' = Step("error", s, NoFrame, "", w2, bff.ws)
    /\ UNCHANGED <<timersCreated, microtasks>>

(* the connection closes without an error: only the close event is dispatched *)
BFFSocketCloses ==
    /\ BFFIdle
    /\ \E s \in 1..Len(bffSockets) :
          /\ bffSockets[s].readyState \in {"OPEN", "CLOSING"}
          /\ LET w0 == [BFFWorld EXCEPT !.socks[s].readyState = "CLOSED"]
                 w1 == IF w0.socks[s].onclose THEN BFFConnection_onclose(w0) ELSE w0
             IN  /\ BFFCommit(w1)
                 /\ last' = Step("close", s, NoFrame, "", w1, bff.ws)
    /\ UNCHANGED <<timersCreated, microtasks>>

BFFNext ==
    \/ BFFCallConnect
    \/ BFFConnectContinue
    \/ BFFCallDisconnect
    \/ BFFCallSend
    \/ BFFCallSendTopicMessage
    \/ BFFCallSetTopics
    \/ BFFCallSendHeartBeat
    \/ BFFHeartBeatTick
    \/ BFFSocketOpens
    \/ BFFServerStartsClose
    \/ BFFSocketMessage
    \/ BFFSocketFails
    \/ BFFSocketCloses

----------------------------------------------------------------------------
(* CliBrokerConnection *)

NonReady == "try to send answer to a non ready ws"
DeserializeError == "deserializeBinary failed"

(* event.data of a forwarded message *)
BrokerData == {"raw", "raw2"}

BrokerFrame(type, bodyOk, alias, data) ==
    [type |-> type, bodyOk |-> bodyOk, alias |-> alias, data |-> data]

(* What the coordinator may put on a broker socket.  BAD_HEADER is a frame *)
(* CoordinatorMessage.deserializeBinary throws on; WELCOME with bodyOk =   *)
(* FALSE is one WelcomeMessage.deserializeBinary throws on.                *)
BrokerInFrames ==
    {BrokerFrame("BAD_HEADER", FALSE, NULL, "raw"),
     BrokerFrame("WELCOME", FALSE, NULL, "raw"),
     BrokerFrame("AUTH", TRUE, NULL, "raw")}
    \cup {BrokerFrame("WELCOME", TRUE, a, "raw") : a \in Aliases}
    \cup {BrokerFrame(t, TRUE, NULL, d) :
              t \in {"TOPIC_FW", "TOPIC_IDENTITY_FW", "PING"}, d \in BrokerData}

ConnectMessage(fromAlias, toAlias) ==
    [type |-> "CONNECT", fromAlias |-> fromAlias, toAlias |-> toAlias]

(* new WebSocket(url, 'comms') with the handlers of connectWS: onerror and  *)
(* onmessage, no onclose.  welcomed records that the socket delivered a     *)
(* WELCOME that decoded, connectSent that a CONNECT was transmitted on it.  *)
BrokerNewSocket ==
    [readyState |-> "CONNECTING", onmessage |-> TRUE, onerror |-> TRUE,
     onclose |-> FALSE, welcomed |-> FALSE, connectSent |-> FALSE]

BrokerWorld ==
    [ws |-> broker.ws, alias |-> broker.alias, connected |-> broker.connected,
     socks |-> brokerSockets,
     out |-> <<>>, notes |-> <<>>, ret |-> Returned, unhandled |-> <<>>]

(* private sendCoordinatorMessage(msg) *)
CliBrokerConnection_sendCoordinatorMessage(w, msg) ==
    IF w.ws = NULL \/ w.socks[w.ws].readyState # "OPEN"
    THEN [w EXCEPT !.ret = Threw(NonReady)]
    ELSE WsSend(w, msg)

(* send(data, _reliable) *)
CliBrokerConnection_send(w, data) ==
    CliBrokerConnection_sendCoordinatorMessage(w, [type |-> "RAW", data |-> data])

(* variant: the socket is closed, its handlers and the reference are kept *)
CliBrokerConnection_disconnect_closesOnly(w) ==
    LET s == w.ws
    IN  IF s # NULL
        THEN [w EXCEPT !.socks[s].readyState = WsClose(@),
                       !.ret = Resolved]
        ELSE [w EXCEPT !.ret = Resolved]

(* async disconnect() *)
CliBrokerConnection_disconnect(w) ==
    LET s == w.ws
    IN  IF s # NULL
        THEN [w EXCEPT !.socks[s].onmessage = FALSE,
                       !.socks[s].onerror = FALSE,
                       !.socks[s].onclose = FALSE,
                       !.socks[s].readyState = WsClose(@),
                       !.ws = NULL,
                       !.ret = Resolved]
        ELSE [w EXCEPT !.ret = Resolved]

(* variant: the future is resolved as soon as a WELCOME frame is seen, before *)
(* it is decoded and answered                                                 *)
CliBrokerConnection_onWelcome_resolvesFirst(w, s, frame) ==
    LET w0 == [w EXCEPT !.connected = Settle(@, "resolved")]
    IN  IF ~frame.bodyOk
        THEN [w0 EXCEPT !.ret = Resolved]
        ELSE LET w1 == [w0 EXCEPT !.alias = frame.alias,
                                  !.socks[s].welcomed = TRUE]
                 r == CliBrokerConnection_sendCoordinatorMessage(
                          w1, ConnectMessage(w1.alias, 0))
             IN  IF r.ret.state = "threw"
                 THEN [r EXCEPT !.ret = Rejected(r.ret.error)]
                 ELSE [r EXCEPT !.socks[r.ws].connectSent = (Len(r.out) > 0),
                                !.ret = Resolved]

(* onWsMessage, case MessageType.WELCOME, for a frame delivered by socket s *)
CliBrokerConnection_onWelcome(w, s, frame) ==
    IF ~frame.bodyOk
    THEN [w EXCEPT !.ret = Resolved]
    ELSE LET w1 == [w EXCEPT !.alias = frame.alias,
                             !.socks[s].welcomed = TRUE]
             r == CliBrokerConnection_sendCoordinatorMessage(
                      w1, ConnectMessage(w1.alias, 0))
         IN  IF r.ret.state = "threw"
             THEN [r EXCEPT !.ret = Rejected(r.ret.error)]
             ELSE [r EXCEPT !.socks[r.ws].connectSent = (Len(r.out) > 0),
                            !.connected = Settle(@, "resolved"),
                            !.ret = Resolved]

(* variant: a PING is announced under its own topic *)
LegacyNote_pingApart(frame) ==
    [stream |-> "onMessageObservable",
     value |-> [topic |-> IF frame.type = "PING" THEN "PING" ELSE "LEGACY",
                data |-> frame.data]]

(* onMessageObservable.notifyObservers({topic: 'LEGACY', data: msg}) *)
LegacyNote(frame) ==
    [stream |-> "onMessageObservable",
     value |-> [topic |-> "LEGACY", data |-> frame.data]]

(* async onWsMessage(event) for a frame delivered by socket s *)
CliBrokerConnection_onWsMessage(w, s, frame) ==
    IF frame.type = "BAD_HEADER"
    THEN [w EXCEPT !.ret = Rejected(DeserializeError)]
    ELSE CASE frame.type = "WELCOME" -> CliBrokerConnection_onWelcome(w, s, frame)
           [] frame.type \in {"TOPIC_FW", "TOPIC_IDENTITY_FW", "PING"} ->
                [w EXCEPT !.notes = Append(@, LegacyNote(frame)),
                          !.ret = Resolved]
           [] OTHER -> [w EXCEPT !.ret = Resolved]

(* private connectWS() *)
CliBrokerConnection_connectWS(w) ==
    LET w1 == IF w.ws # NULL
              THEN [w EXCEPT !.socks[w.ws].readyState = WsClose(@), !.ws = NULL]
              ELSE w
        s == Len(w1.socks) + 1
    IN  [w1 EXCEPT !.socks = Append(@, BrokerNewSocket), !.ws = s]

(* connect() up to `await this.connected` *)
CliBrokerConnection_connect(w) ==
    IF w.ws = NULL THEN CliBrokerConnection_connectWS(w) ELSE w

(* variant: the error is only logged *)
CliBrokerConnection_onerror_keepsWs(w) ==
    w

(* ws.onerror of connectWS *)
CliBrokerConnection_onerror(w) ==
    [w EXCEPT !.ws = NULL]

BrokerCommit(w) ==
    /\ broker' = [ws |-> w.ws, alias |-> w.alias, connected |-> w.connected]
    /\ brokerSockets' = w.socks
    /\ out' = w.out
    /\ notes' = w.notes
    /\ UNCHANGED <<bffVars, sagaVars, contextVars>>

(* No connect() is ready to resume: the event loop takes its next task *)
BrokerIdle == ~(awaiting > 0 /\ broker.connected = "resolved")

BrokerCallConnect ==
    /\ awaiting < MaxAwaiting
    /\ broker.ws = NULL => Len(brokerSockets) < MaxSockets
    /\ LET w == CliBrokerConnection_connect(BrokerWorld)
       IN  /\ BrokerCommit(w)
           /\ last' = Step("connect", w.ws, NoFrame, "", w, broker.ws)
    /\ awaiting' = awaiting + 1

(* `await this.connected` resumes once the future is resolved: connect() *)
(* completes                                                             *)
BrokerConnectResumes ==
    /\ awaiting > 0
    /\ broker.connected = "resolved"
    /\ LET w == [BrokerWorld EXCEPT !.ret = Resolved]
       IN  /\ BrokerCommit(w)
           /\ last' = Step("connectDone", broker.ws, NoFrame, "", w, broker.ws)
    /\ awaiting' = awaiting - 1

BrokerCallSend ==
    /\ \E data \in RawData :
          LET w == CliBrokerConnection_send(BrokerWorld, data)
          IN  /\ BrokerCommit(w)
              /\ last' = Step("send", broker.ws, NoFrame, data, w, broker.ws)
    /\ UNCHANGED awaiting

BrokerCallDisconnect ==
    /\ LET w == CliBrokerConnection_disconnect(BrokerWorld)
       IN  /\ BrokerCommit(w)
           /\ last' = Step("disconnect", broker.ws, NoFrame, "", w, broker.ws)
    /\ UNCHANGED awaiting

BrokerSocketOpens ==
    /\ BrokerIdle
    /\ \E s \in 1..Len(brokerSockets) :
          /\ brokerSockets[s].readyState = "CONNECTING"
          /\ LET w == [BrokerWorld EXCEPT !.socks[s].readyState = "OPEN"]
             IN  /\ BrokerCommit(w)
                 /\ last' = Step("open", s, NoFrame, "", w, broker.ws)
    /\ UNCHANGED awaiting

BrokerServerStartsClose ==
    /\ BrokerIdle
    /\ \E s \in 1..Len(brokerSockets) :
          /\ brokerSockets[s].readyState = "OPEN"
          /\ LET w == [BrokerWorld EXCEPT !.socks[s].readyState = "CLOSING"]
             IN  /\ BrokerCommit(w)
                 /\ last' = Step("closing", s, NoFrame, "", w, broker.ws)
    /\ UNCHANGED awaiting

(* a message event; a rejection of onWsMessage is caught and logged *)
BrokerSocketMessage ==
    /\ BrokerIdle
    /\ \E s \in 1..Len(brokerSockets), frame \in BrokerInFrames :
          /\ brokerSockets[s].readyState = "OPEN"
          /\ brokerSockets[s].onmessage
          /\ LET w == CliBrokerConnection_onWsMessage(BrokerWorld, s, frame)
             IN  /\ BrokerCommit(w)
                 /\ last' = Step("message", s, frame, "", w, broker.ws)
    /\ UNCHANGED awaiting

(* the connection fails: the socket is CLOSED and its error event dispatched; *)
(* no handler is attached for the close event that follows                    *)
BrokerSocketFails ==
    /\ BrokerIdle
    /\ \E s \in 1..Len(brokerSockets) :
          /\ brokerSockets[s].readyState # "CLOSED"
          /\ LET w0 == [BrokerWorld EXCEPT !.socks[s].readyState = "CLOSED"]
                 w1 == IF w0.socks[s].onerror THEN CliBrokerConnection_onerror(w0) ELSE w0
             IN  /\ BrokerCommit(w1)
                 /\ last' = Step("error", s, NoFrame, "", w1, broker.ws)
    /\ UNCHANGED awaiting

(* the connection closes without an error: no handler runs *)
BrokerSocketCloses ==
    /\ BrokerIdle
    /\ \E s \in 1..Len(brokerSockets) :
          /\ brokerSockets[s].readyState \in {"OPEN", "CLOSING"}
          /\ LET w == [BrokerWorld EXCEPT !.socks[s].readyState = "CLOSED"]
             IN  /\ BrokerCommit(w)
                 /\ last' = Step("close", s, NoFrame, "", w, broker.ws)
    /\ UNCHANGED awaiting

BrokerNext ==
    \/ BrokerCallConnect
    \/ BrokerConnectResumes
    \/ BrokerCallSend
    \/ BrokerCallDisconnect
    \/ BrokerSocketOpens
    \/ BrokerServerStartsClose
    \/ BrokerSocketMessage
    \/ BrokerSocketFails
    \/ BrokerSocketCloses

----------------------------------------------------------------------------
(* Realm re-selection: commsSaga's takeLatest(CATALYST_REALMS_SCAN_SUCCESS, *)
(* changeRealm)                                                             *)

ServerNames == {"a", "b"}
Hostnames == {"h1", "h2"}
Protocols == {"v3", "v4"}
Realms ==
    {[serverName |-> n, hostname |-> h, protocol |-> p] :
         n \in ServerNames, h \in Hostnames, p \in Protocols}

(* getRealm(state) before a realm is set *)
NoRealm == [serverName |-> "", hostname |-> "", protocol |-> "undefined"]

setCatalystRealm(r) == [type |-> "Set Catalyst realm", payload |-> r]

sameRealm(realm1, realm2) ==
    realm1.serverName = realm2.serverName /\ realm2.hostname = realm2.hostname

NoTask == [pc |-> "none", currentRealm |-> NoRealm]

(* variant: realm selection is run whether or not a realm is set *)
changeRealm_start_alwaysSelects(currentRealm) ==
    [pc |-> "selectRealm", currentRealm |-> currentRealm]

(* changeRealm up to `yield call(selectRealm)`: the task that is left running *)
changeRealm_start(currentRealm) ==
    IF currentRealm = NoRealm
    THEN NoTask
    ELSE [pc |-> "selectRealm", currentRealm |-> currentRealm]

(* changeRealm after selectRealm returned otherRealm: the actions it puts *)
changeRealm_selected(currentRealm, otherRealm) ==
    IF ~sameRealm(currentRealm, otherRealm)
    THEN <<setCatalystRealm(otherRealm)>>
    ELSE <<>>

(* the store's realm after the actions were dispatched *)
RECURSIVE daoReducer(_, _)
daoReducer(r, actions) ==
    IF actions = <<>> THEN r
    ELSE daoReducer(actions[1].payload, Tail(actions))

(* userAuthentified has not run *)
NoAuth == [pc |-> "none", currentRealm |-> NoRealm]

ConnectCall(r) == [stream |-> "connect", value |-> r]

deepEqual(a, b) == a = b

(* userAuthentified from `yield put(establishingComms())` to its next      *)
(* suspension: the first connect, or, without a realm, the registration of *)
(* the SET_CATALYST_REALM handler                                          *)
userAuthentified_establish(realmNow) ==
    LET currentRealm == realmNow
    IN  IF currentRealm # NoRealm
        THEN [auth |-> [pc |-> "connecting", currentRealm |-> currentRealm],
              calls |-> <<ConnectCall(currentRealm)>>]
        ELSE [auth |-> [pc |-> "listening", currentRealm |-> currentRealm],
              calls |-> <<>>]

(* userAuthentified from its start to its first suspension; *)
(* waitForRealmInitialized returns once a realm is set      *)
userAuthentified_start(editor, realmNow) ==
    IF editor
    THEN [auth |-> [pc |-> "editor", currentRealm |-> NoRealm], calls |-> <<>>]
    ELSE IF realmNow = NoRealm
         THEN [auth |-> [pc |-> "waitRealm", currentRealm |-> NoRealm], calls |-> <<>>]
         ELSE userAuthentified_establish(realmNow)

(* the handler userAuthentified registers for SET_CATALYST_REALM, up to *)
(* `yield call(connect, currentRealm)`                                  *)
userAuthentified_onSetCatalystRealm(a, realmNow) ==
    LET previousRealm == a.currentRealm
        currentRealm == realmNow
    IN  [auth |-> [a EXCEPT !.currentRealm = currentRealm],
         calls |-> IF currentRealm # NoRealm /\ ~deepEqual(previousRealm, currentRealm)
                   THEN <<ConnectCall(currentRealm)>>
                   ELSE <<>>]

(* what userAuthentified does when SET_CATALYST_REALM went through the *)
(* store: nothing unless it waits for the realm or has its handler     *)
(* registered                                                          *)
userAuthentified_dispatched(a, realmNow) ==
    CASE a.pc = "waitRealm" -> userAuthentified_establish(realmNow)
      [] a.pc = "listening" -> userAuthentified_onSetCatalystRealm(a, realmNow)
      [] OTHER -> [auth |-> a, calls |-> <<>>]

SagaCommit(puts) ==
    /\ out' = puts
    /\ realm' = daoReducer(realm, puts)
    /\ LET r == IF puts = <<>>
                THEN [auth |-> auth, calls |-> <<>>]
                ELSE userAuthentified_dispatched(auth, daoReducer(realm, puts))
       IN  /\ auth' = r.auth
           /\ notes' = r.calls
    /\ UNCHANGED <<bffVars, brokerVars, contextVars>>

SagaStep(op, arg) ==
    [op |-> op, sock |-> NULL, frame |-> NoFrame, arg |-> arg, ret |-> Returned,
     unhandled |-> <<>>, wsBefore |-> NULL]

(* CATALYST_REALMS_SCAN_SUCCESS: takeLatest cancels the changeRealm that is *)
(* still running and forks a new one, which runs up to selectRealm          *)
ScanSuccess ==
    /\ changeRealmTask' = changeRealm_start(realm)
    /\ SagaCommit(<<>>)
    /\ last' = SagaStep("scanSuccess",
                        [cancelled |-> changeRealmTask.pc # "none",
                         currentRealm |-> realm])

(* selectRealm returns and changeRealm runs to its end *)
SelectRealmReturns ==
    /\ changeRealmTask.pc = "selectRealm"
    /\ \E otherRealm \in Realms :
          /\ SagaCommit(changeRealm_selected(changeRealmTask.currentRealm, otherRealm))
          /\ last' = SagaStep("changeRealm",
                              [currentRealm |-> changeRealmTask.currentRealm,
                               otherRealm |-> otherRealm])
    /\ changeRealmTask' = NoTask

(* setCatalystRealm dispatched by another saga (realm initialisation, the *)
(* user choosing a realm)                                                 *)
RealmSetElsewhere ==
    /\ \E r \in Realms :
          /\ SagaCommit(<<setCatalystRealm(r)>>)
          /\ last' = SagaStep("setCatalystRealm", r)
    /\ UNCHANGED changeRealmTask

(* USER_AUTHENTIFIED: takeEvery forks userAuthentified; EDITOR is the *)
(* build's configuration                                             *)
UserAuthentified ==
    /\ auth.pc = "none"
    /\ \E editor \in BOOLEAN :
          LET r == userAuthentified_start(editor, realm)
          IN  /\ auth' = r.auth
              /\ notes' = r.calls
              /\ last' = SagaStep("userAuthentified", editor)
    /\ out' = <<>>
    /\ UNCHANGED <<bffVars, brokerVars, contextVars, realm, changeRealmTask>>

(* the first connect(currentRealm) returns and userAuthentified registers *)
(* its SET_CATALYST_REALM handler                                         *)
FirstConnectReturns ==
    /\ auth.pc = "connecting"
    /\ auth' = [auth EXCEPT !.pc = "listening"]
    /\ last' = SagaStep("connectDone", auth.currentRealm)
    /\ out' = <<>>
    /\ notes' = <<>>
    /\ UNCHANGED <<bffVars, brokerVars, contextVars, realm, changeRealmTask>>

SagaNext ==
    \/ ScanSuccess
    \/ SelectRealmReturns
    \/ RealmSetElsewhere
    \/ UserAuthentified
    \/ FirstConnectReturns

----------------------------------------------------------------------------
(* Comms context lifecycle: commsSaga's takeEvery(SET_WORLD_CONTEXT,        *)
(* handleNewCommsContext).  A CommsContext object is named by a number,     *)
(* `undefined` is NULL.                                                     *)

CommsContexts == {1, 2, 3}

setWorldContext(context) == [type |-> "SET_WORLD_CONTEXT", payload |-> context]

(* the store's protocol state after SET_WORLD_CONTEXT: the context that was *)
(* current becomes the previous one                                         *)
protocolReducer(state, action) ==
    [context |-> action.payload, prevContext |-> state.context]

getPrevCommsContext(state) == state.prevContext

getCommsContext(state) == state.context

DisconnectCall(context) == [stream |-> "disconnect", value |-> context]

(* variant: the previous context is disconnected even when it is still the *)
(* current one                                                             *)
handleNewCommsContext_noIdentityTest(state) ==
    LET oldContext == getPrevCommsContext(state)
    IN  IF oldContext # NULL THEN <<oldContext>> ELSE <<>>

(* handleNewCommsContext up to `yield call(disconnectContext, oldContext)`: *)
(* the contexts whose disconnect() it invokes and awaits                    *)
handleNewCommsContext(state) ==
    LET oldContext == getPrevCommsContext(state)
        newContext == getCommsContext(state)
    IN  IF oldContext # NULL /\ oldContext # newContext
        THEN <<oldContext>>
        ELSE <<>>

(* an action SET_WORLD_CONTEXT goes through the store: the reducer, then the *)
(* handler takeEvery forks for it, which runs up to its await               *)
DispatchSetWorldContext(op, context) ==
    LET state == protocolReducer(world, setWorldContext(context))
        awaited == handleNewCommsContext(state)
    IN  /\ Len(handlers) + Len(awaited) <= MaxHandlers
        /\ world' = state
        /\ handlers' = handlers \o awaited
        /\ notes' = [i \in DOMAIN awaited |-> DisconnectCall(awaited[i])]
        /\ out' = <<setWorldContext(context)>>
        /\ last' = [op |-> op, sock |-> NULL, frame |-> NoFrame, arg |-> context,
                    ret |-> Returned, unhandled |-> <<>>, wsBefore |-> NULL]
        /\ UNCHANGED <<bffVars, brokerVars, sagaVars>>

(* connect() installs the context it built *)
SetWorldContext ==
    \E context \in CommsContexts : DispatchSetWorldContext("SET_WORLD_CONTEXT", context)

(* takeEvery(FATAL_ERROR, ...): put(setWorldContext(undefined)) *)
FatalError ==
    DispatchSetWorldContext("FATAL_ERROR", NULL)

(* takeEvery(BEFORE_UNLOAD, ...): put(setWorldContext(undefined)) *)
BeforeUnload ==
    DispatchSetWorldContext("BEFORE_UNLOAD", NULL)

(* the disconnect() a handler awaits settles and the handler ends *)
DisconnectContextReturns ==
    /\ \E i \in DOMAIN handlers :
          /\ handlers' = SubSeq(handlers, 1, i - 1) \o SubSeq(handlers, i + 1, Len(handlers))
          /\ last' = [op |-> "disconnectContextDone", sock |-> NULL, frame |-> NoFrame,
                      arg |-> handlers[i], ret |-> Resolved, unhandled |-> <<>>,
                      wsBefore |-> NULL]
    /\ out' = <<>>
    /\ notes' = <<>>
    /\ UNCHANGED <<bffVars, brokerVars, sagaVars, world>>

ContextNext ==
    \/ SetWorldContext
    \/ FatalError
    \/ BeforeUnload
    \/ DisconnectContextReturns

----------------------------------------------------------------------------
(* Realm candidate scoring: the close-peers score link                      *)

MaxCloseUsers == 15

Parcel(x, y) == [x |-> x, y |-> y]

(* the link's parameters and the requester's parcel *)
closePeersDistance == 1
baseScore == 25
userParcel == Parcel(0, 0)
closePeersMargin == 10

(* `undefined`: the link makes no decision *)
NoDecision == [parcels |-> <<>>, latencyDeduction |-> -1]

Abs(n) == IF n < 0 THEN -n ELSE n

Max(a, b) == IF a >= b THEN a ELSE b

(* n copies of parcel p *)
RECURSIVE Repeat(_, _)
Repeat(p, n) ==
    IF n = 0 THEN <<>> ELSE <<p>> \o Repeat(p, n - 1)

(* Candidates: users standing next to the requester, users far away, and *)
(* the deduction the latency addon takes from the candidate's score      *)
Candidates ==
    {[parcels |-> Repeat(Parcel(1, -1), near) \o Repeat(Parcel(5, 0), far),
      latencyDeduction |-> d] :
         near \in 0..MaxCloseUsers, far \in 0..1, d \in {0, 3}}

ThirdCandidates ==
    {c \in Candidates : Len(c.parcels) \in {1, MaxCloseUsers} /\ c.latencyDeduction = 0}

(* context.picked: the candidates a link chooses from *)
PickedLists ==
    {<<a, b>> : a \in Candidates, b \in Candidates}
    \cup {<<a, b, c>> : a \in ThirdCandidates, b \in Candidates, c \in ThirdCandidates}

(* usersParcels(candidate): the parcels of the users the candidate reports *)
usersParcels(candidate) == candidate.parcels

(* countParcelsCloseTo(origin, parcels, distance): the parcels within       *)
(* `distance` of origin on both axes                                        *)
RECURSIVE countParcelsCloseTo(_, _, _)
countParcelsCloseTo(origin, parcels, distance) ==
    IF parcels = <<>> THEN 0
    ELSE (IF Max(Abs(parcels[1].x - origin.x), Abs(parcels[1].y - origin.y)) <= distance
          THEN 1 ELSE 0)
         + countParcelsCloseTo(origin, Tail(parcels), distance)

(* closeUsersScore(currentParcel)(candidate) *)
closeUsersScore(currentParcel, candidate) ==
    LET parcels == usersParcels(candidate)
    IN  IF Len(parcels) > 0
        THEN baseScore + countParcelsCloseTo(currentParcel, parcels, closePeersDistance)
        ELSE 0

(* defaultScoreAddons(latencyDeductionsParameters, baseScore, score): the *)
(* link's score less the latency deduction of the candidate               *)
defaultScoreAddons(candidate, rawScore) ==
    rawScore - candidate.latencyDeduction

(* the position candidate c takes when inserted into a list sorted by *)
(* descending score                                                   *)
RECURSIVE insertByScore(_, _, _)
insertByScore(c, sorted, score) ==
    IF sorted = <<>> THEN <<c>>
    ELSE IF score[c] > score[sorted[1]]
         THEN <<c>> \o sorted
         ELSE <<sorted[1]>> \o insertByScore(c, Tail(sorted), score)

RECURSIVE sortByScore(_, _)
sortByScore(picked, score) ==
    IF picked = <<>> THEN <<>>
    ELSE insertByScore(picked[Len(picked)],
                       sortByScore(SubSeq(picked, 1, Len(picked) - 1), score), score)

(* selectFirstByScore(context, score, margin): the candidates by descending *)
(* score; the first is selected unless it leads the second by less than     *)
(* the margin                                                               *)
selectFirstByScore(picked, score, definitiveDecisionThreshold) ==
    LET sorted == sortByScore(picked, score)
    IN  IF Len(sorted) = 0 THEN NoDecision
        ELSE IF Len(sorted) > 1
                /\ score[sorted[1]] - score[sorted[2]] < definitiveDecisionThreshold
             THEN NoDecision
             ELSE sorted[1]

(* the link's score function over the picked candidates *)
closePeersScore(picked) ==
    [c \in {picked[i] : i \in DOMAIN picked} |->
        defaultScoreAddons(c, closeUsersScore(userParcel, c))]

(* variant: the link decides on any lead, without a margin *)
closePeersScoreLink_pick_noMargin(picked) ==
    selectFirstByScore(picked, closePeersScore(picked), 0)

(* closePeersScoreLink(...).pick(context) *)
closePeersScoreLink_pick(picked) ==
    selectFirstByScore(picked, closePeersScore(picked), closePeersMargin)

(* a realm selection pass reaches the close-peers link; the link keeps no *)
(* state between invocations, so one invocation is explored              *)
ClosePeersPick ==
    /\ last.op = "init"
    /\ \E picked \in PickedLists :
          /\ last' = [op |-> "pick", sock |-> NULL, frame |-> NoFrame, arg |-> picked,
                      ret |-> Returned, unhandled |-> <<>>, wsBefore |-> NULL]
          /\ out' = <<closePeersScoreLink_pick(picked)>>
    /\ notes' = <<>>
    /\ UNCHANGED <<bffVars, brokerVars, sagaVars, contextVars>>

ScoreNext ==
    \/ ClosePeersPick

----------------------------------------------------------------------------
(* resolveCommsV4Url.  A string is the sequence of its lexical parts: a     *)
(* scheme ("https"), the separator "://", an authority, path segments       *)
(* ("/ws-bff").                                                             *)

UrlHosts == {"peer.example", "10.0.0.1:5000"}
UrlPaths == {<<>>, <<"/x">>, <<"/x", "/y">>}

(* realm.hostname: an alias, a bare host, or a URL with or without scheme *)
UrlHostnames ==
    {<<"local">>, <<"remote">>}
    \cup {<<h>> \o path : h \in UrlHosts, path \in UrlPaths}
    \cup {<<sch, "://", h>> \o path :
              sch \in {"http", "https"}, h \in UrlHosts, path \in UrlPaths}
    \cup {<<"://", h>> : h \in UrlHosts}

UrlRealms ==
    {[serverName |-> n, hostname |-> h, protocol |-> p] :
         n \in ServerNames, h \in UrlHostnames, p \in {"v2", "v3", "v4"}}

(* `undefined` *)
NoUrl == <<>>

InvalidUrl == "TypeError: Invalid URL"

(* url begins with scheme:// *)
StartsWith(url, scheme) ==
    Len(url) >= 2 /\ url[1] = scheme /\ url[2] = "://"

(* url.replace(/^scheme:\/\//, replacement + '://') *)
ReplaceScheme(url, scheme, replacement) ==
    IF StartsWith(url, scheme)
    THEN <<replacement, "://">> \o SubSeq(url, 3, Len(url))
    ELSE url

(* variant: only http:// is rewritten *)
httpToWs_httpOnly(url) ==
    ReplaceScheme(url, "http", "ws")

httpToWs(url) ==
    ReplaceScheme(ReplaceScheme(url, "https", "wss"), "http", "ws")

(* hostname.match(/:\/\//) *)
HasSchemeSeparator(hostname) ==
    \E i \in DOMAIN hostname : hostname[i] = "://"

(* new URL('bff/ws-bff', base).toString(): the relative path replaces the *)
(* last segment of the base's path; a base without a scheme is invalid    *)
NewURL_bff(base) ==
    IF ~(Len(base) >= 3 /\ base[2] = "://")
    THEN Threw(InvalidUrl)
    ELSE LET dir == IF Len(base) > 3 THEN SubSeq(base, 1, Len(base) - 1) ELSE base
         IN  [state |-> "returned", error |-> "none",
              url |-> dir \o <<"/bff", "/ws-bff">>]

(* resolveCommsV4Url(realm): [state, error, url] *)
resolveCommsV4Url(r) ==
    IF r.protocol # "v4"
    THEN [state |-> "returned", error |-> "none", url |-> NoUrl]
    ELSE IF r.hostname = <<"local">>
         THEN [state |-> "returned", error |-> "none",
               url |-> httpToWs(<<"http", "://", "127.0.0.1:5002", "/ws-bff">>)]
         ELSE IF r.hostname = <<"remote">>
              THEN [state |-> "returned", error |-> "none",
                    url |-> httpToWs(<<"https", "://", "explorer-bff.decentraland.io",
                                       "/ws-bff">>)]
              ELSE LET server == IF HasSchemeSeparator(r.hostname)
                                 THEN r.hostname
                                 ELSE <<"https", "://">> \o r.hostname
                       resolved == NewURL_bff(server)
                   IN  IF resolved.state = "threw"
                       THEN [state |-> "threw", error |-> resolved.error, url |-> NoUrl]
                       ELSE [resolved EXCEPT !.url = httpToWs(@)]

(* the address of a realm is resolved *)
ResolveCommsV4Url ==
    /\ last.op = "init"
    /\ \E r \in UrlRealms :
          /\ last' = [op |-> "resolveCommsV4Url", sock |-> NULL, frame |-> NoFrame,
                      arg |-> r, ret |-> Returned, unhandled |-> <<>>,
                      wsBefore |-> NULL]
          /\ out' = <<resolveCommsV4Url(r)>>
    /\ notes' = <<>>
    /\ UNCHANGED <<bffVars, brokerVars, sagaVars, contextVars>>

UrlNext ==
    \/ ResolveCommsV4Url

----------------------------------------------------------------------------
(* Specifications *)

Init ==
    /\ bff = [ws |-> NULL, heartBeatInterval |-> NULL]
    /\ bffSockets = <<>>
    /\ timers = {}
    /\ timersCreated = 0
    /\ microtasks = 0
    /\ disconnects = 0
    /\ broker = [ws |-> NULL, alias |-> NULL, connected |-> "pending"]
    /\ brokerSockets = <<>>
    /\ awaiting = 0
    /\ realm = NoRealm
    /\ changeRealmTask = NoTask
    /\ auth = NoAuth
    /\ world = [context |-> NULL, prevContext |-> NULL]
    /\ handlers = <<>>
    /\ last = [op |-> "init", sock |-> NULL, frame |-> NoFrame, arg |-> "",
               ret |-> Returned, unhandled |-> <<>>, wsBefore |-> NULL]
    /\ out = <<>>
    /\ notes = <<>>

SpecBFF == Init /\ [][BFFNext]_vars

SpecBroker == Init /\ [][BrokerNext]_vars

SpecSaga == Init /\ [][SagaNext]_vars

SpecScore == Init /\ [][ScoreNext]_vars

SpecUrl == Init /\ [][UrlNext]_vars

SpecContext == Init /\ [][ContextNext]_vars

(* A comms context holds one transport, of either variant *)
BFFUnused ==
    /\ bff = [ws |-> NULL, heartBeatInterval |-> NULL]
    /\ bffSockets = <<>>
    /\ microtasks = 0

BrokerUnused ==
    /\ broker = [ws |-> NULL, alias |-> NULL, connected |-> "pending"]
    /\ brokerSockets = <<>>
    /\ awaiting = 0

TransportNext ==
    \/ BrokerUnused /\ BFFNext
    \/ BFFUnused /\ BrokerNext

SpecTransport == Init /\ [][TransportNext]_vars

----------------------------------------------------------------------------
(* Properties of the BFF transport *)

Torn(s) ==
    /\ ~bffSockets[s].onmessage
    /\ ~bffSockets[s].onerror
    /\ ~bffSockets[s].onclose
    /\ bffSockets[s].readyState \in {"CLOSING", "CLOSED"}
    /\ bff.ws # s

IsFailureStep ==
    last.op = "message" /\ last.frame.type = "VALIDATION_FAILURE"

(* C1: a socket that delivered VALIDATION_FAILURE is torn down once and      *)
(* exactly one 'disconnected' notification is made for it: the step that     *)
(* receives the frame tears the socket down and notifies once, and nothing   *)
(* that follows (a further disconnect(), a further frame) notifies again.    *)
C1_ValidationFailureOneTeardown ==
    /\ IsFailureStep =>
          /\ notes = <<DisconnectedNote>>
          /\ bff.ws = NULL
          /\ Torn(last.sock)
    /\ \A s \in 1..Len(bffSockets) :
          bffSockets[s].gotFailure => Torn(s) /\ bffSockets[s].notified = 1

(* a disconnect() issued after VALIDATION_FAILURE already tore the socket down *)
C1_Witness ==
    /\ last.op = "disconnect"
    /\ last.wsBefore = NULL
    /\ \E s \in 1..Len(bffSockets) : bffSockets[s].gotFailure

IsTeardownEvent ==
    \/ last.op \in {"error", "close"}
    \/ IsFailureStep

(* C3: a socket error, a socket close or VALIDATION_FAILURE coming from the  *)
(* current socket cancels the timer held in heartBeatInterval, clears the    *)
(* socket's three handlers, closes the socket, nulls the socket reference    *)
(* and notifies 'disconnected' observers exactly once; an error followed by  *)
(* the close event of the same socket is one step and notifies once.         *)
C3_FullTeardown ==
    (IsTeardownEvent /\ last.wsBefore # NULL /\ last.sock = last.wsBefore) =>
        /\ bff.heartBeatInterval # NULL
        /\ bff.heartBeatInterval \notin timers
        /\ Torn(last.sock)
        /\ bff.ws = NULL
        /\ notes = <<DisconnectedNote>>
        /\ bffSockets[last.sock].notified = 1

(* the error and close events of the current socket *)
C3_Witness ==
    /\ last.op = "error"
    /\ last.wsBefore # NULL
    /\ last.sock = last.wsBefore
    /\ notes = <<DisconnectedNote>>

(* C4: after disconnect() no heartbeat timer of the instance is active *)
C4_NoTimerAfterDisconnect ==
    last.op = "disconnect" => timers = {}

IsHeartBeatStep == last.op \in {"tick", "sendHeartBeat"}

HeartBeatOut ==
    <<[sock |-> last.wsBefore, msg |-> [type |-> "HEARTBEAT",
        data |-> [category |-> "WORLD_POSITION", positionX |-> last.arg[1],
                  positionY |-> last.arg[2], positionZ |-> last.arg[3]]]]>>

(* C7 as claimed: a tick without a position sends nothing, a tick with a *)
(* position sends exactly one HEARTBEAT carrying it                      *)
C7_TickAlwaysSends ==
    last.op = "tick" =>
        IF last.arg = NoPosition THEN out = <<>> ELSE out = HeartBeatOut

(* C7, amended: a heartbeat without a position sends nothing and fails      *)
(* nowhere; a heartbeat with a position puts exactly one HEARTBEAT carrying *)
(* that position on the socket when the socket is OPEN, and puts nothing on *)
(* any socket when the socket reference is null or the socket is not OPEN.  *)
C7_HeartBeatSkipOrSend ==
    IsHeartBeatStep =>
        IF last.arg = NoPosition
        THEN out = <<>> /\ last.ret = Resolved /\ last.unhandled = <<>>
        ELSE IF bff.ws # NULL /\ bffSockets[bff.ws].readyState = "OPEN"
             THEN out = HeartBeatOut
             ELSE out = <<>>

(* a tick with no position while the socket is OPEN *)
C7_Witness ==
    /\ last.op = "tick"
    /\ last.arg = NoPosition
    /\ bff.ws # NULL
    /\ bffSockets[bff.ws].readyState = "OPEN"

IsSendStep ==
    \/ last.op \in {"send", "sendTopicMessage", "setTopics"}
    \/ last.op = "sendHeartBeat" /\ last.arg # NoPosition

(* C8: a send, sendTopicMessage, setTopics or sendHeartBeat (with a position) *)
(* made while the socket reference is null sends nothing and its caller gets  *)
(* the 'This transport is closed' error (thrown or as its promise's           *)
(* rejection), none being left as an unhandled rejection.                     *)
C8_ClosedSendFailsObservably ==
    (IsSendStep /\ last.wsBefore = NULL) =>
        /\ out = <<>>
        /\ last.ret.state \in {"rejected", "threw"}
        /\ last.ret.error = TransportClosed
        /\ last.unhandled = <<>>

IsChallengeStep ==
    last.op = "message" /\ last.frame.type = "OPEN" /\ last.frame.bodyOk

(* C10: an OPEN challenge with payload p is answered, on the socket that     *)
(* delivered it, by exactly one VALIDATION message whose encoded payload is  *)
(* the signature of p by the identity getIdentity() returned; no other step  *)
(* sends a VALIDATION message.                                               *)
C10_ChallengeSignedOnce ==
    /\ IsChallengeStep =>
          out = <<[sock |-> last.sock,
                   msg |-> [type |-> "VALIDATION",
                            encodedPayload |-> <<"json", last.arg, last.frame.payload>>]]>>
    /\ \A i \in DOMAIN out :
          out[i].msg.type = "VALIDATION" => IsChallengeStep

(* the challenge b"abc" answered *)
C10_Witness ==
    /\ IsChallengeStep
    /\ last.frame.payload = "abc"
    /\ Len(out) = 1

IsMalformed(frame) ==
    \/ frame.type = "BAD_HEADER"
    \/ frame.type \in {"OPEN", "TOPIC", "ISLAND_CHANGES"} /\ ~frame.bodyOk

(* C11: a frame whose header does not decode, or an OPEN / TOPIC /           *)
(* ISLAND_CHANGES frame whose body does not decode, is dropped: the step     *)
(* that receives it changes no field, no socket, no timer, notifies nobody,  *)
(* sends nothing and fails nowhere; the socket stays the current one, OPEN   *)
(* with its handlers; and a well-formed TOPIC or ISLAND_CHANGES frame that   *)
(* comes right after it is delivered to its subscribers.                     *)
C11_MalformedFrameDropped ==
    /\ [][(last'.op = "message" /\ IsMalformed(last'.frame)) =>
             /\ bff' = bff
             /\ bffSockets' = bffSockets
             /\ timers' = timers
             /\ disconnects' = disconnects
             /\ notes' = <<>>
             /\ out' = <<>>
             /\ last'.ret = Resolved
             /\ last'.unhandled = <<>>
             /\ bff'.ws = last'.sock
             /\ bffSockets'[last'.sock].readyState = "OPEN"
             /\ bffSockets'[last'.sock].onmessage]_vars
    /\ [][(/\ last.op = "message" /\ IsMalformed(last.frame)
           /\ last'.op = "message" /\ last'.frame.bodyOk
           /\ last'.frame.type \in {"TOPIC", "ISLAND_CHANGES"}) =>
             Len(notes') = 1]_vars

(* a frame with an undecodable header received on the open connection *)
C11_Witness ==
    /\ last.op = "message"
    /\ last.frame.type = "BAD_HEADER"
    /\ bff.ws = last.sock
    /\ bffSockets[bff.ws].readyState = "OPEN"
    /\ bff.heartBeatInterval \in timers

IsDelivery(type) ==
    last.op = "message" /\ last.frame.type = type /\ last.frame.bodyOk

(* C17: a TOPIC message that decodes makes exactly one notification, on     *)
(* onTopicMessageObservable, with the peerId and body of that message; an   *)
(* ISLAND_CHANGES message that decodes makes exactly one notification, on   *)
(* onIslandChangeObservable, with its connection string; VALIDATION_OK and  *)
(* unknown message types make none; and no other step notifies either       *)
(* stream.                                                                  *)
C17_StreamsSeparate ==
    /\ IsDelivery("TOPIC") =>
          notes = <<[stream |-> "onTopicMessageObservable",
                     value |-> [peerId |-> last.frame.peerId,
                                data |-> last.frame.body]]>>
    /\ IsDelivery("ISLAND_CHANGES") =>
          notes = <<[stream |-> "onIslandChangeObservable",
                     value |-> last.frame.connStr]>>
    /\ (/\ last.op = "message"
        /\ last.frame.type \in {"VALIDATION_OK", "UNKNOWN_MESSAGE_TYPE", "HEARTBEAT"}) =>
          notes = <<>>
    /\ \A i \in DOMAIN notes :
          /\ notes[i].stream = "onTopicMessageObservable" => IsDelivery("TOPIC")
          /\ notes[i].stream = "onIslandChangeObservable" => IsDelivery("ISLAND_CHANGES")

(* a TOPIC message delivered to the topic subscribers *)
C17_Witness ==
    /\ IsDelivery("TOPIC")
    /\ Len(notes) = 1
    /\ notes[1].value.peerId = "peer1"

----------------------------------------------------------------------------
(* Properties of the broker transport *)

Handshaken(s) ==
    brokerSockets[s].welcomed /\ brokerSockets[s].connectSent

(* C2: the 'connected' future goes from pending to resolved only in a step   *)
(* that received a WELCOME that decoded and put CONNECT (from = the alias of *)
(* that WELCOME, to = 0) on the socket; a WELCOME that fails to decode       *)
(* leaves it pending; a connect() call completes only with the future        *)
(* resolved, after some socket delivered WELCOME and was sent CONNECT.       *)
C2_ConnectedAfterHandshake ==
    /\ [][(broker.connected = "pending" /\ broker'.connected = "resolved") =>
             /\ last'.op = "message"
             /\ last'.frame.type = "WELCOME"
             /\ last'.frame.bodyOk
             /\ broker'.alias = last'.frame.alias
             /\ out' = <<[sock |-> last'.sock,
                          msg |-> [type |-> "CONNECT",
                                   fromAlias |-> last'.frame.alias,
                                   toAlias |-> 0]]>>]_vars
    /\ [][(last'.op = "message" /\ last'.frame.type = "WELCOME" /\ ~last'.frame.bodyOk) =>
             broker'.connected = broker.connected]_vars
    /\ [](broker.connected = "resolved" =>
             \E s \in 1..Len(brokerSockets) : Handshaken(s))
    /\ [](last.op = "connectDone" =>
             /\ broker.connected = "resolved"
             /\ \E s \in 1..Len(brokerSockets) : Handshaken(s))

(* a connect() call completing after the handshake *)
C2_Witness ==
    /\ last.op = "connectDone"
    /\ broker.connected = "resolved"
    /\ broker.alias \in Aliases

(* C5: a send() made before WELCOME assigned an alias, or while the socket *)
(* is absent or not OPEN, throws and puts nothing on the socket            *)
C5_SendBeforeAssignedFails ==
    (/\ last.op = "send"
     /\ \/ broker.alias = NULL
        \/ broker.ws = NULL
        \/ brokerSockets[broker.ws].readyState # "OPEN") =>
        /\ last.ret.state = "threw"
        /\ out = <<>>

(* C22: when a connect() call completes, the socket the instance holds at *)
(* that moment has delivered WELCOME and been sent CONNECT, also when the *)
(* connect() follows a handshake, then a disconnect() or a socket error,  *)
(* on the same instance.                                                  *)
C22_CompletesOnHandshakenSocket ==
    (last.op = "connectDone" /\ broker.ws # NULL) => Handshaken(broker.ws)

(* C26: disconnect() clears the handlers of the current socket, closes it  *)
(* and nulls the reference, leaving alias, future and the other sockets    *)
(* as they were and notifying nothing; with no socket it changes nothing;  *)
(* afterwards a send throws and transmits nothing, and a message is only   *)
(* ever delivered by the socket the instance currently holds.              *)
C26_DisconnectTearsDown ==
    [][/\ last'.op = "disconnect" =>
            /\ broker'.ws = NULL
            /\ broker'.alias = broker.alias
            /\ broker'.connected = broker.connected
            /\ out' = <<>>
            /\ notes' = <<>>
            /\ DOMAIN brokerSockets' = DOMAIN brokerSockets
            /\ \A s \in DOMAIN brokerSockets :
                  IF s = broker.ws
                  THEN /\ ~brokerSockets'[s].onmessage
                       /\ ~brokerSockets'[s].onerror
                       /\ ~brokerSockets'[s].onclose
                       /\ brokerSockets'[s].readyState \in {"CLOSING", "CLOSED"}
                  ELSE brokerSockets'[s] = brokerSockets[s]
       /\ (last'.op = "send" /\ broker.ws = NULL) =>
            /\ last'.ret.state = "threw"
            /\ out' = <<>>
       /\ last'.op = "message" => last'.sock = broker.ws]_vars

(* disconnect() on an instance that completed the handshake: the alias is *)
(* assigned and the future resolved                                       *)
C26_Witness ==
    /\ last.op = "disconnect"
    /\ last.wsBefore # NULL
    /\ brokerSockets[last.wsBefore].connectSent
    /\ broker.alias # 0
    /\ broker.connected = "resolved"

(* A connect() call is waiting on the future and the future is unsettled *)
ConnectPending == awaiting > 0 /\ broker.connected = "pending"

(* C23: every connect() call eventually settles, also when the socket     *)
(* errors, is closed by the server or disconnect() is called before a     *)
(* WELCOME.  Finite-run form: a call is never left pending without a      *)
(* socket that can still deliver the WELCOME, because only the message    *)
(* handler of the current socket ever settles the future.                 *)
C23_PendingConnectCanSettle ==
    ConnectPending =>
        /\ broker.ws # NULL
        /\ brokerSockets[broker.ws].readyState \in {"CONNECTING", "OPEN"}
        /\ brokerSockets[broker.ws].onmessage

ForwardedTypes == {"TOPIC_FW", "TOPIC_IDENTITY_FW", "PING"}

(* C13: a TOPIC_FW, TOPIC_IDENTITY_FW or PING message makes exactly one     *)
(* notification, on onMessageObservable, of {topic: 'LEGACY', data: the     *)
(* bytes received}, whichever of the three types it has, and changes        *)
(* neither the instance nor a socket; a message of another type that is not *)
(* WELCOME notifies nobody, sends nothing and changes neither the           *)
(* instance's fields (socket reference, alias, future) nor any socket; no   *)
(* other step notifies onMessageObservable.                                 *)
C13_ForwardedUniformly ==
    /\ [][(last'.op = "message" /\ last'.frame.type \in ForwardedTypes) =>
             /\ notes' = <<[stream |-> "onMessageObservable",
                            value |-> [topic |-> "LEGACY",
                                       data |-> last'.frame.data]]>>
             /\ out' = <<>>
             /\ broker' = broker
             /\ brokerSockets' = brokerSockets]_vars
    /\ [][(/\ last'.op = "message"
           /\ last'.frame.type \notin ForwardedTypes \cup {"WELCOME", "BAD_HEADER"}) =>
             /\ notes' = <<>>
             /\ out' = <<>>
             /\ last'.ret = Resolved
             /\ broker' = broker
             /\ brokerSockets' = brokerSockets
             /\ brokerSockets'[last'.sock].readyState = "OPEN"]_vars
    /\ [](\A i \in DOMAIN notes :
             /\ last.op = "message"
             /\ last.frame.type \in ForwardedTypes)

(* a PING forwarded to the subscribers *)
C13_Witness ==
    /\ last.op = "message"
    /\ last.frame.type = "PING"
    /\ last.frame.data = "raw2"
    /\ Len(notes) = 1

IsCurrentSocketError ==
    last.op = "error" /\ last.wsBefore # NULL /\ last.sock = last.wsBefore

(* C14: an error of the current socket clears the socket reference; while   *)
(* the reference is null every send throws 'try to send answer to a non     *)
(* ready ws' and puts nothing on a socket (in particular the send that      *)
(* comes right after the error); the reference stays null and no socket is  *)
(* created except by a connect() call.                                      *)
C14_ErrorLeavesUnusable ==
    /\ [](IsCurrentSocketError => broker.ws = NULL)
    /\ []((last.op = "send" /\ broker.ws = NULL) =>
             /\ last.ret = Threw(NonReady)
             /\ out = <<>>)
    /\ [][(IsCurrentSocketError /\ last'.op = "send") =>
             /\ last'.ret = Threw(NonReady)
             /\ out' = <<>>]_vars
    /\ [][(\/ Len(brokerSockets') # Len(brokerSockets)
           \/ broker.ws = NULL /\ broker'.ws # NULL) =>
             last'.op = "connect"]_vars

(* the error of the socket of a connection that completed its handshake *)
C14_Witness ==
    /\ IsCurrentSocketError
    /\ broker.ws = NULL
    /\ brokerSockets[last.sock].connectSent

----------------------------------------------------------------------------
(* Properties of realm re-selection *)

(* C6: when changeRealm has selected a realm, setCatalystRealm(selected) is *)
(* dispatched if and only if the selected realm differs from the current    *)
(* one in serverName or in hostname; otherwise nothing is dispatched        *)
C6_DispatchIffRealmDiffers ==
    last.op = "changeRealm" =>
        IF \/ last.arg.currentRealm.serverName # last.arg.otherRealm.serverName
           \/ last.arg.currentRealm.hostname # last.arg.otherRealm.hostname
        THEN out = <<setCatalystRealm(last.arg.otherRealm)>>
        ELSE out = <<>>

(* C27: a scan success with no realm in the store leaves no changeRealm    *)
(* running (realm selection is not called), dispatches nothing and leaves  *)
(* the realm unset; a scan success never dispatches by itself and leaves   *)
(* at most the one changeRealm it started, holding the realm read at that  *)
(* scan; a changeRealm that finishes dispatches at most one                *)
(* setCatalystRealm and leaves none running.                               *)
C27_OneChangeRealmAtATime ==
    /\ (last.op = "scanSuccess" /\ last.arg.currentRealm = NoRealm) =>
            /\ changeRealmTask = NoTask
            /\ realm = NoRealm
    /\ last.op = "scanSuccess" =>
            /\ out = <<>>
            /\ changeRealmTask.pc = "selectRealm" =>
                  changeRealmTask.currentRealm = last.arg.currentRealm
    /\ last.op = "changeRealm" =>
            /\ changeRealmTask = NoTask
            /\ Len(out) <= 1
            /\ \A i \in DOMAIN out : out[i].type = setCatalystRealm(NoRealm).type

(* a scan succeeds while the authenticated user still waits for a realm *)
C27_Witness ==
    /\ last.op = "scanSuccess"
    /\ last.arg.currentRealm = NoRealm
    /\ auth.pc = "waitRealm"

IsStaleSocketEvent ==
    /\ last.op \in {"error", "close"}
    /\ last.wsBefore # NULL
    /\ last.sock # last.wsBefore

(* C21: a close or error event of a socket that is no longer the current  *)
(* one leaves the current socket alone: it stays referenced and keeps its *)
(* three handlers, and no 'disconnected' notification is made.            *)
C21_StaleEventHarmless ==
    IsStaleSocketEvent =>
        /\ bff.ws = last.wsBefore
        /\ bffSockets[last.wsBefore].onmessage
        /\ bffSockets[last.wsBefore].onerror
        /\ bffSockets[last.wsBefore].onclose
        /\ notes = <<>>

(* disconnect() has run and connect() has not been called since: the step *)
(* started on an instance that holds no socket                            *)
IsTornDownStep ==
    /\ disconnects > 0
    /\ last.wsBefore = NULL
    /\ last.op \notin {"init", "connect"}

(* C25: once disconnect() has run and until connect() is called again, no *)
(* frame is delivered to the instance, no topic or island notification is *)
(* made and nothing is put on any socket, whatever is called or happens.  *)
C25_SilentAfterDisconnect ==
    IsTornDownStep =>
        /\ last.op # "message"
        /\ out = <<>>
        /\ \A i \in DOMAIN notes :
              notes[i].stream \notin {"onTopicMessageObservable",
                                      "onIslandChangeObservable"}

(* a topic message is sent after disconnect() while the torn-down socket *)
(* is still closing                                                      *)
C25_Witness ==
    /\ IsTornDownStep
    /\ last.op = "sendTopicMessage"
    /\ \E s \in DOMAIN bffSockets :
          /\ bffSockets[s].readyState = "CLOSING"
          /\ ~bffSockets[s].onmessage
          /\ bffSockets[s].notified > 0

(* C24: when a socket raises an error while it is still CONNECTING, with  *)
(* the handlers of connectWS attached, the promise connectWS returned for *)
(* it, which connect() awaits, is rejected.                               *)
C24_ErrorBeforeOpenRejects ==
    [][\A s \in DOMAIN bffSockets :
          (/\ last'.op = "error"
           /\ last'.sock = s
           /\ bffSockets[s].readyState = "CONNECTING"
           /\ bffSockets[s].onerror)
          => bffSockets'[s].promise = "rejected"]_vars

(* the connection is in the Open state: the current socket is OPEN and has *)
(* delivered VALIDATION_OK                                                 *)
ConnectionOpen(s) ==
    /\ s # NULL
    /\ bff.ws = s
    /\ bffSockets[s].readyState = "OPEN"
    /\ bffSockets[s].validated

(* C19: the heartbeat timer puts a HEARTBEAT message on a socket only while *)
(* the connection is Open: the socket is the current one, has opened and    *)
(* has delivered VALIDATION_OK, and has not been torn down.                 *)
C19_HeartBeatOnlyWhileOpen ==
    last.op = "tick" =>
        \A i \in DOMAIN out :
            out[i].msg.type = "HEARTBEAT" => ConnectionOpen(out[i].sock)

(* C20: once the user is authenticated, not in editor mode, a             *)
(* SET_CATALYST_REALM action is followed by a call connect(realm in the   *)
(* store) exactly when that realm is defined and not deep-equal to the    *)
(* realm userAuthentified saw at its previous connect decision (none      *)
(* before the first); setting the same realm again calls nothing; in      *)
(* editor mode connect is never called.                                   *)
C20_ConnectIffRealmChanged ==
    /\ [][(/\ auth.pc \in {"waitRealm", "connecting", "listening"}
           /\ Len(out') = 1
           /\ out'[1].type = "Set Catalyst realm") =>
             IF realm' # NoRealm /\ realm' # auth.currentRealm
             THEN notes' = <<[stream |-> "connect", value |-> realm']>>
             ELSE notes' = <<>>]_vars
    /\ [](auth.pc = "editor" => notes = <<>>)

----------------------------------------------------------------------------
(* Properties of both transports *)

IsBrokerStep == "alias" \in DOMAIN last.frame

IsBFFMessage == last.op = "message" /\ ~IsBrokerStep

IsBrokerMessage == last.op = "message" /\ IsBrokerStep

(* what frame f, delivered by socket s on a BFF connection, causes: the *)
(* notifications and the replies                                        *)
BFFCausedNotes(f) ==
    IF ~f.bodyOk THEN <<>>
    ELSE CASE f.type = "TOPIC" ->
                 <<[stream |-> "onTopicMessageObservable",
                    value |-> [peerId |-> f.peerId, data |-> f.body]]>>
           [] f.type = "ISLAND_CHANGES" ->
                 <<[stream |-> "onIslandChangeObservable", value |-> f.connStr]>>
           [] f.type = "VALIDATION_FAILURE" ->
                 <<[stream |-> "onDisconnectObservable", value |-> "void"]>>
           [] OTHER -> <<>>

BFFCausedReplies(f, s, identity) ==
    IF f.type = "OPEN" /\ f.bodyOk
    THEN <<[sock |-> s,
            msg |-> [type |-> "VALIDATION",
                     encodedPayload |-> <<"json", identity, f.payload>>]]>>
    ELSE <<>>

BrokerCausedNotes(f) ==
    IF f.type \in {"TOPIC_FW", "TOPIC_IDENTITY_FW", "PING"}
    THEN <<[stream |-> "onMessageObservable",
            value |-> [topic |-> "LEGACY", data |-> f.data]]>>
    ELSE <<>>

BrokerCausedReplies(f, s) ==
    IF f.type = "WELCOME" /\ f.bodyOk
    THEN <<[sock |-> s,
            msg |-> [type |-> "CONNECT", fromAlias |-> f.alias, toAlias |-> 0]]>>
    ELSE <<>>

IsSubscriberNote(n) ==
    n.stream \in {"onTopicMessageObservable", "onIslandChangeObservable",
                  "onMessageObservable"}

IsReply(o) == o.msg.type \in {"VALIDATION", "CONNECT"}

(* C18: on either transport, the notifications and replies a frame causes  *)
(* are all made in the step that delivers it, complete and in the order    *)
(* the handler makes them, before the socket delivers its next frame; no   *)
(* other step (a later frame, a timer tick, a call) makes a subscriber     *)
(* notification or a reply, so nothing is kept back, batched or reordered. *)
C18_ProcessedInDeliveryOrder ==
    /\ IsBFFMessage =>
          /\ notes = BFFCausedNotes(last.frame)
          /\ \A i \in DOMAIN out : IsReply(out[i])
          /\ out = BFFCausedReplies(last.frame, last.sock, last.arg)
    /\ IsBrokerMessage =>
          /\ notes = BrokerCausedNotes(last.frame)
          /\ out = BrokerCausedReplies(last.frame, last.sock)
    /\ last.op # "message" =>
          /\ \A i \in DOMAIN notes : ~IsSubscriberNote(notes[i])
          /\ \A i \in DOMAIN out : ~IsReply(out[i])

(* a topic message delivered on a connection whose heartbeat timer runs *)
C18_Witness ==
    /\ IsBFFMessage
    /\ last.frame.type = "TOPIC"
    /\ last.frame.bodyOk
    /\ Len(notes) = 1
    /\ bff.heartBeatInterval \in timers

----------------------------------------------------------------------------
(* Properties of the close-peers score link *)

(* the adjusted score of the i-th candidate of the list the link was given *)
AdjustedScore(i) ==
    LET c == last.arg[i]
    IN  (IF Len(c.parcels) > 0
         THEN baseScore + Cardinality({k \in DOMAIN c.parcels :
                              /\ Abs(c.parcels[k].x - userParcel.x) <= closePeersDistance
                              /\ Abs(c.parcels[k].y - userParcel.y) <= closePeersDistance})
         ELSE 0) - c.latencyDeduction

Leads(i) ==
    \A j \in DOMAIN last.arg : j # i => AdjustedScore(i) - AdjustedScore(j) >= 10

(* C12: given two or more candidates, the close-peers link returns a        *)
(* candidate exactly when that candidate's adjusted score is at least 10    *)
(* above every other candidate's, and returns it; otherwise it returns no   *)
(* decision.  Adjusted scores 40 and 25 pick the first candidate, 32 and 28 *)
(* give no decision.                                                        *)
C12_DecisionOnlyWithMargin ==
    last.op = "pick" =>
        /\ \A i \in DOMAIN last.arg : Leads(i) => out = <<last.arg[i]>>
        /\ (~\E i \in DOMAIN last.arg : Leads(i)) => out = <<NoDecision>>
        /\ (Len(last.arg) = 2 /\ AdjustedScore(1) = 40 /\ AdjustedScore(2) = 25) =>
              out = <<last.arg[1]>>
        /\ (Len(last.arg) = 2 /\ AdjustedScore(1) = 32 /\ AdjustedScore(2) = 28) =>
              out = <<NoDecision>>

(* the scenario 40 against 25 *)
C12_Witness ==
    /\ last.op = "pick"
    /\ Len(last.arg) = 2
    /\ AdjustedScore(1) = 40
    /\ AdjustedScore(2) = 25
    /\ out = <<last.arg[1]>>

----------------------------------------------------------------------------
(* Properties of resolveCommsV4Url *)

(* C16: for a realm of protocol v4, hostname 'local' resolves to           *)
(* ws://127.0.0.1:5002/ws-bff and hostname 'remote' to                     *)
(* wss://explorer-bff.decentraland.io/ws-bff; for a realm of any other     *)
(* protocol, whatever its hostname, the result is undefined.               *)
C16_ResolveWellKnownHosts ==
    last.op = "resolveCommsV4Url" =>
        /\ (last.arg.protocol = "v4" /\ last.arg.hostname = <<"local">>) =>
              /\ out[1].state = "returned"
              /\ out[1].url = <<"ws", "://", "127.0.0.1:5002", "/ws-bff">>
        /\ (last.arg.protocol = "v4" /\ last.arg.hostname = <<"remote">>) =>
              /\ out[1].state = "returned"
              /\ out[1].url = <<"wss", "://", "explorer-bff.decentraland.io", "/ws-bff">>
        /\ last.arg.protocol # "v4" =>
              /\ out[1].state = "returned"
              /\ out[1].url = NoUrl

(* the address of the v4 realm 'remote' *)
C16_Witness ==
    /\ last.op = "resolveCommsV4Url"
    /\ last.arg.protocol = "v4"
    /\ last.arg.hostname = <<"remote">>
    /\ Len(out[1].url) = 4

----------------------------------------------------------------------------
(* Properties of the comms context lifecycle *)

IsContextDispatch(op) == op \in {"SET_WORLD_CONTEXT", "FATAL_ERROR", "BEFORE_UNLOAD"}

(* C15: when SET_WORLD_CONTEXT replaces an existing context by a different  *)
(* one or by undefined, the handler of that action invokes disconnect() of  *)
(* the replaced context exactly once and stays suspended on it; when there  *)
(* was no context, or the context set is the one already current, no        *)
(* disconnect() is invoked; disconnect() is never invoked on the context    *)
(* that is current after the action.                                        *)
C15_SupersededDisconnectedOnce ==
    /\ [][IsContextDispatch(last'.op) =>
             IF world.context # NULL /\ world.context # last'.arg
             THEN /\ notes' = <<[stream |-> "disconnect", value |-> world.context]>>
                  /\ handlers' = Append(handlers, world.context)
             ELSE /\ notes' = <<>>
                  /\ handlers' = handlers]_vars
    /\ [](IsContextDispatch(last.op) =>
             /\ world.context = last.arg
             /\ \A i \in DOMAIN notes : notes[i].value # world.context)
    /\ [][~IsContextDispatch(last'.op) => notes' = <<>>]_vars

(* the current context replaced by undefined on a fatal error while the *)
(* handler of an earlier replacement is still suspended                 *)
C15_Witness ==
    /\ last.op = "FATAL_ERROR"
    /\ Len(notes) = 1
    /\ world.prevContext # NULL
    /\ Len(handlers) = 2

====
